---- MODULE Spec2Model ----
(***************************************************************************)
(* Valeo PDF -> XLSX extraction engine (streamlit_app_valeo_autodetect.py). *)
(* The invoice line scanner (parse_valeo_invoice_text) and the packing-list *)
(* scanner (parse_valeo_packing_pdf) as state machines, one step per loop   *)
(* iteration.  Text is a sequence of one-character strings, so that the     *)
(* regular expressions, split(), lower(), int() and eu_to_float() are       *)
(* computed character by character as the code computes them.               *)
(***************************************************************************)
EXTENDS Integers, Sequences, FiniteSets, TLC

VARIABLES
  pc,             \* position: which loop of which function is running
  pdf,            \* invoice input: extract_text() of each page (None or text)
  text_lines,     \* the non-blank lines of read_all_text(pdf)
  pos,            \* index of the next line of text_lines (1-based)
  inv_rows,       \* parse_valeo_invoice_text: rows
  current_inv,    \* parse_valeo_invoice_text: current_inv
  j,              \* parse_valeo_invoice_text: j (anchor index, 0-based)
  inv_src,        \* history: for each record of inv_rows, the index of its line
  pack_rows,      \* parse_valeo_packing_pdf: rows
  current_parcel, \* parse_valeo_packing_pdf: current_parcel
  page_no,        \* number of pages of pdf.pages taken so far
  lines,          \* visual lines of the current page: <<y, ws>>
  idx,            \* index of the next line in the walk below the header
  header_y,       \* header[0] of the current page
  qty_win,        \* <<low, high>>
  valeo_win,      \* <<low, high>>
  seen_group,     \* history: a group-header row has been processed in this document
  page_info,      \* history: what the page taken last holds (PageInfo)
  prior           \* history: what the document processed before this one left

vars == <<pc, pdf, text_lines, pos, inv_rows, current_inv, j, inv_src,
          pack_rows, current_parcel, page_no, lines, idx, header_y,
          qty_win, valeo_win, seen_group, page_info, prior>>

invVars == <<pdf, text_lines, pos, inv_rows, current_inv, j, inv_src>>
packVars == <<pack_rows, current_parcel, page_no, lines, idx, header_y,
              qty_win, valeo_win, seen_group, page_info>>

-----------------------------------------------------------------------------
(* Bounds of the model.                                                    *)
MaxDocItems == 3   \* lines and page breaks in an invoice document
MaxTokens == 8     \* tokens of the line of a one-line document
MaxPages == 2      \* pages of a packing document
MaxRows == 2       \* source rows of words on a packing page
MaxDocs == 2       \* documents uploaded together

-----------------------------------------------------------------------------
(* Characters and strings.                                                 *)
None == <<"None">>     \* Python's None; differs from every text

DigitSeq == <<"0","1","2","3","4","5","6","7","8","9">>
UpperSeq == <<"A","B","C","D","E","F","G","H","I","J","K","L","M","N","O","P","Q","R","S","T","U","V","W","X","Y","Z">>
LowerSeq == <<"a","b","c","d","e","f","g","h","i","j","k","l","m","n","o","p","q","r","s","t","u","v","w","x","y","z">>
Digit == {DigitSeq[i] : i \in 1..10}
UpperCase == {UpperSeq[i] : i \in 1..26}
LowerCase == {LowerSeq[i] : i \in 1..26}
WordChar == Digit \cup UpperCase \cup LowerCase \cup {"_"}    \* \w
Space == {" ", "\t", "\n"}                                    \* \s

IndexOf(seq, c) == CHOOSE i \in 1..Len(seq) : seq[i] = c
DigitVal(c) == IndexOf(DigitSeq, c) - 1
LowerChar(c) == IF c \in UpperCase THEN LowerSeq[IndexOf(UpperSeq, c)] ELSE c
UpperChar(c) == IF c \in LowerCase THEN UpperSeq[IndexOf(LowerSeq, c)] ELSE c

lower(s) == [i \in 1..Len(s) |-> LowerChar(s[i])]
upper(s) == [i \in 1..Len(s) |-> UpperChar(s[i])]
AllIn(s, S) == \A i \in 1..Len(s) : s[i] \in S
startswith(s, p) == Len(s) >= Len(p) /\ SubSeq(s, 1, Len(p)) = p
\* positions (1-based) where p occurs in s
Occurrences(s, p) == {i \in 1..(Len(s) - Len(p) + 1) : SubSeq(s, i, i + Len(p) - 1) = p}
contains(s, p) == Occurrences(s, p) # {}
SetMin(S) == CHOOSE x \in S : \A y \in S : x <= y
SetMax(S) == CHOOSE x \in S : \A y \in S : x >= y

\* str.strip()
RECURSIVE lstrip(_)
lstrip(s) == IF s # <<>> /\ Head(s) \in Space THEN lstrip(Tail(s)) ELSE s
RECURSIVE rstrip(_)
rstrip(s) ==
  IF s # <<>> /\ s[Len(s)] \in Space THEN rstrip(SubSeq(s, 1, Len(s) - 1)) ELSE s
strip(s) == rstrip(lstrip(s))

\* the elements of a finite set of integers in ascending order
RECURSIVE Ascending(_)
Ascending(S) ==
  IF S = {} THEN <<>> ELSE <<SetMin(S)>> \o Ascending(S \ {SetMin(S)})

\* str.split(): the maximal runs of non-whitespace, left to right
split(s) ==
  LET starts == {i \in 1..Len(s) : s[i] \notin Space /\ (i = 1 \/ s[i - 1] \in Space)}
      EndOf(b) == SetMin({e \in b..Len(s) : e = Len(s) \/ s[e + 1] \in Space})
      order == Ascending(starts)
  IN [n \in 1..Len(order) |-> SubSeq(s, order[n], EndOf(order[n]))]

\* str.splitlines(): a line ends at each line break; no empty last line
splitlines(s) ==
  LET breaks == Ascending({i \in 1..Len(s) : s[i] = "\n"})
      StartOf(n) == IF n = 1 THEN 1 ELSE breaks[n - 1] + 1
      ended == [n \in 1..Len(breaks) |-> SubSeq(s, StartOf(n), breaks[n] - 1)]
      last == SubSeq(s, StartOf(Len(breaks) + 1), Len(s))
  IN IF last = <<>> THEN ended ELSE Append(ended, last)

\* sep.join(parts)
RECURSIVE join(_, _)
join(sep, parts) ==
  IF parts = <<>> THEN <<>>
  ELSE IF Len(parts) = 1 THEN parts[1]
  ELSE parts[1] \o sep \o join(sep, Tail(parts))

\* int(s) of a string of decimal digits
RECURSIVE int(_)
int(s) ==
  IF s = <<>> THEN 0 ELSE int(SubSeq(s, 1, Len(s) - 1)) * 10 + DigitVal(s[Len(s)])

\* \b between s[i] and s[i+1] (i = 0: start of s, i = Len(s): end of s)
WordBoundary(s, i) ==
  (i >= 1 /\ s[i] \in WordChar) # (i < Len(s) /\ s[i + 1] \in WordChar)

\* re.fullmatch(r"\d{lo,hi}", t)
DigitsBetween(t, lo, hi) == Len(t) >= lo /\ Len(t) <= hi /\ AllIn(t, Digit)

-----------------------------------------------------------------------------
(* Helpers (lines 11-22).                                                  *)

\* A float is <<m, f>>: the value m / 10^f, with no trailing zero in the fraction.
RECURSIVE Normal(_, _)
Normal(m, f) == IF f > 0 /\ m % 10 = 0 THEN Normal(m \div 10, f - 1) ELSE <<m, f>>

\* float(s), for s made of digits, "." and ",": digits with at most one ".",
\* and at least one digit; anything else raises ValueError (None here).
float(s) ==
  LET dots == {i \in 1..Len(s) : s[i] = "."}
      digs == SelectSeq(s, LAMBDA c : c \in Digit)
  IN IF ~AllIn(s, Digit \cup {"."}) \/ Cardinality(dots) > 1 \/ digs = <<>>
     THEN None
     ELSE Normal(int(digs), IF dots = {} THEN 0 ELSE Len(s) - SetMin(dots))

\* Mutant: the thousands separators are not removed.
eu_to_float_keeps_dots(s) ==
  LET stripped == strip(s)
      dotted == [i \in 1..Len(stripped) |-> IF stripped[i] = "," THEN "." ELSE stripped[i]]
  IN float(dotted)

eu_to_float(s) ==
  LET stripped == strip(s)
      nodots == SelectSeq(stripped, LAMBDA c : c # ".")                      \* .replace(".", "")
      dotted == [i \in 1..Len(nodots) |-> IF nodots[i] = "," THEN "." ELSE nodots[i]]
  IN float(dotted)

\* "\n".join([(p.extract_text() or "") for p in pdf.pages])
read_all_text(pages) ==
  join(<<"\n">>, [i \in 1..Len(pages) |-> IF pages[i] = None THEN <<>> ELSE pages[i]])

-----------------------------------------------------------------------------
(* parse_valeo_invoice_text (lines 25-76).                                 *)

\* inv_re.search(raw_line): group(1) of the leftmost match of \b(695\d{6})\b
inv_re(line) ==
  LET hits == {i \in 1..(Len(line) - 8) :
                 /\ SubSeq(line, i, i + 2) = <<"6","9","5">>
                 /\ AllIn(SubSeq(line, i + 3, i + 8), Digit)
                 /\ WordBoundary(line, i - 1)
                 /\ WordBoundary(line, i + 8)}
  IN IF hits = {} THEN None ELSE SubSeq(line, SetMin(hits), SetMin(hits) + 8)

BoilerplatePrefixes ==
  { <<"y","o","u","r"," ","o","r","d","e","r",":">>,
    <<"d","e","l","i","v","e","r","y"," ","n","o","t","e",":">>,
    <<"g","o","o","d","s"," ","v","a","l","u","e">>,
    <<"v","a","t"," ","r","a","t","e">>,
    <<"t","r","a","n","s","p","o","r","t"," ","c","o","s","t">>,
    <<"c","u","r","r","e","n","c","y">>,
    <<"t","o","t","a","l"," ","g","r","o","s","s"," ","v","a","l","u","e">>,
    <<"n","e","t"," ","p","r","i","c","e"," ","w","i","t","h","o","u","t"," ","v","a","t">> }

MinTok == 7

\* re.fullmatch(r"[\d\.,]+", t)
DecimalShaped(t) == Len(t) >= 1 /\ AllIn(t, Digit \cup {".", ","})
\* re.fullmatch(r"[A-Z]{2}", t)
TwoUpper(t) == Len(t) = 2 /\ AllIn(t, UpperCase)
\* re.fullmatch(r"\d+", t)
AllDigits(t) == Len(t) >= 1 /\ AllIn(t, Digit)

\* tok[k] with Python's 0-based index
At(tok, k) == tok[k + 1]

NoIndex == -1     \* j = None

AnchorAt(tok, k) ==
  /\ TwoUpper(At(tok, k))
  /\ k + 1 < Len(tok)
  /\ DigitsBetween(At(tok, k + 1), 6, 8)
  /\ AllDigits(At(tok, k - 1))

\* for k in range(len(tok)-3, 1, -1): the first k found, scanning downwards
RECURSIVE AnchorScan(_, _)
AnchorScan(tok, k) ==
  IF k <= 1 THEN NoIndex
  ELSE IF AnchorAt(tok, k) THEN k
  ELSE AnchorScan(tok, k - 1)

\* Mutant: the scan runs upwards, so the leftmost qualifying k wins.
FindAnchorLeftmost(tok) ==
  LET found == {k \in 2..(Len(tok) - 3) : AnchorAt(tok, k)}
  IN IF found = {} THEN NoIndex ELSE SetMin(found)

FindAnchor(tok) == AnchorScan(tok, Len(tok) - 3)

\* for t in tok[:j-1]: the first all-digit token, scanning upwards from index i
RECURSIVE SupplierScan(_, _, _)
SupplierScan(tok, i, jj) ==
  IF i >= jj - 1 THEN None
  ELSE IF AllDigits(At(tok, i)) THEN At(tok, i)
  ELSE SupplierScan(tok, i + 1, jj)

\* Mutant: tok[:j] instead of tok[:j-1], so the quantity token is a candidate.
FindSupplierUpToQty(tok, jj) == SupplierScan(tok, 0, jj + 1)

FindSupplier(tok, jj) == SupplierScan(tok, 0, jj)

\* rows.append([supplier_token, qty, net_price, tot_net, current_inv])
InvoiceRow(tok, jj, supplier_token, inv) ==
  << supplier_token,
     int(At(tok, jj - 1)),
     eu_to_float(tok[Len(tok) - 1]),
     eu_to_float(tok[Len(tok)]),
     inv >>

Supplier_ID(r) == r[1]
Qty(r) == r[2]
Net_Price(r) == r[3]
Tot_Net_Value(r) == r[4]
InvoiceNo(r) == r[5]

IsBoilerplate(raw_line) ==
  \E p \in BoilerplatePrefixes : startswith(lower(raw_line), p)

\* Mutant: the invoice number is looked for after the boilerplate test.
UpdateInvAfterSkip(raw_line, cur) ==
  IF ~IsBoilerplate(raw_line) /\ inv_re(raw_line) # None THEN inv_re(raw_line) ELSE cur

\* m_inv = inv_re.search(raw_line); if m_inv: current_inv = m_inv.group(1)
UpdateInv(raw_line, cur) ==
  IF inv_re(raw_line) # None THEN inv_re(raw_line) ELSE cur

\* Mutant: the prefixes are compared with the line as written, not lowercased.
invoice_line_case_sensitive(raw_line, cur, jj) ==
  LET inv == UpdateInv(raw_line, cur)
      tok == split(raw_line)
      skip == [current_inv |-> inv, j |-> jj, row |-> None]
  IN IF \E p \in BoilerplatePrefixes : startswith(raw_line, p) THEN skip
     ELSE IF Len(tok) < MinTok THEN skip
     ELSE IF ~(DecimalShaped(tok[Len(tok)]) /\ DecimalShaped(tok[Len(tok) - 1])) THEN skip
     ELSE LET a == FindAnchor(tok) IN
       IF a = NoIndex THEN [skip EXCEPT !.j = a]
       ELSE LET supplier_token == FindSupplier(tok, a) IN
         IF supplier_token = None \/ supplier_token = <<>> THEN [skip EXCEPT !.j = a]
         ELSE [current_inv |-> inv, j |-> a,
               row |-> InvoiceRow(tok, a, supplier_token, inv)]

\* One iteration of the loop over the lines: the new current_inv, the new j,
\* and the row appended (None when the iteration ends in a continue).
invoice_line(raw_line, cur, jj) ==
  LET inv == UpdateInv(raw_line, cur)
      tok == split(raw_line)
      skip == [current_inv |-> inv, j |-> jj, row |-> None]
  IN IF IsBoilerplate(raw_line) THEN skip
     ELSE IF Len(tok) < MinTok THEN skip
     ELSE IF ~(DecimalShaped(tok[Len(tok)]) /\ DecimalShaped(tok[Len(tok) - 1])) THEN skip
     ELSE LET a == FindAnchor(tok) IN
       IF a = NoIndex THEN [skip EXCEPT !.j = a]
       ELSE LET supplier_token == FindSupplier(tok, a) IN
         IF supplier_token = None \/ supplier_token = <<>> THEN [skip EXCEPT !.j = a]
         ELSE [current_inv |-> inv, j |-> a,
               row |-> InvoiceRow(tok, a, supplier_token, inv)]

\* (l for l in full_text.splitlines() if l.strip())
NonBlankLines(full_text) == SelectSeq(splitlines(full_text), LAMBDA l : strip(l) # <<>>)

-----------------------------------------------------------------------------
(* parse_valeo_packing_pdf (lines 79-171).                                 *)
(* A word is [text, x0, x1, top]; x0 and x1 are whole coordinate units and  *)
(* top is in hundredths of a unit.  A page is [text, words, width].         *)

\* PALLET_WORD.search(t): \bPALLET\b, re.IGNORECASE
PALLET_WORD(t) ==
  \E i \in Occurrences(lower(t), <<"p","a","l","l","e","t">>) :
    WordBoundary(t, i - 1) /\ WordBoundary(t, i + 5)
\* PARCEL_ID.match(t): ^\d{6,}$
PARCEL_ID(t) == Len(t) >= 6 /\ AllIn(t, Digit)
\* SUPPLIER_ID.match(t): ^\d{4,8}$
SUPPLIER_ID(t) == DigitsBetween(t, 4, 8)
\* Mutant: the quantity pattern has no upper bound on the number of digits.
INT_ANY(t) == Len(t) >= 1 /\ AllIn(t, Digit)
\* INT_ONLY.match(t): ^\d{1,4}$
INT_ONLY(t) == DigitsBetween(t, 1, 4)

\* the words ws, separated by \s+, matched at position i of s
RECURSIVE WordsAt(_, _, _)
WordsAt(s, i, ws) ==
  IF ws = <<>> THEN TRUE
  ELSE LET e == i + Len(ws[1]) - 1 IN
       /\ e <= Len(s)
       /\ SubSeq(s, i, e) = ws[1]
       /\ \/ Len(ws) = 1
          \/ \E n \in 1..(Len(s) - e) :
               /\ AllIn(SubSeq(s, e + 1, e + n), Space)
               /\ WordsAt(s, e + n + 1, Tail(ws))

SkipPatterns ==
  { << <<"d","i","m","e","n","s","i","o","n","s">> >>,
    << <<"t","o","t","a","l">>, <<"n","e","t">>, <<"w","e","i","g","h","t">> >>,
    << <<"t","o","t","a","l">>, <<"g","r","o","s","s">>, <<"w","e","i","g","h","t">> >>,
    << <<"t","y","p","e">>, <<"o","f">>, <<"p","a","r","c","e","l">> >> }

\* SKIP_LINE.search(s), re.IGNORECASE
SKIP_LINE(s) ==
  \E p \in SkipPatterns : \E i \in 1..Len(s) : WordsAt(lower(s), i, p)

\* round(w["top"], 1), in tenths of a unit (no top of the model is a tie)
Round1(top) == (top + 5) \div 10

\* sorted(ws, key=lambda x: x["x0"]): stable insertion sort
RECURSIVE InsertByX0(_, _)
InsertByX0(sorted, w) ==
  IF sorted = <<>> THEN <<w>>
  ELSE IF sorted[Len(sorted)].x0 <= w.x0 THEN Append(sorted, w)
  ELSE Append(InsertByX0(SubSeq(sorted, 1, Len(sorted) - 1), w), sorted[Len(sorted)])
RECURSIVE SortByX0(_)
SortByX0(ws) ==
  IF ws = <<>> THEN <<>>
  ELSE InsertByX0(SortByX0(SubSeq(ws, 1, Len(ws) - 1)), ws[Len(ws)])

\* Mutant: the words are grouped by their top as it is, not rounded.
GroupLinesExactTop(words) ==
  LET keys == Ascending({words[i].top : i \in 1..Len(words)})
  IN [n \in 1..Len(keys) |->
        << keys[n],
           SortByX0(SelectSeq(words, LAMBDA w : w.top = keys[n])) >>]

\* lines 110-114: the visual lines <<y, ws>> of a page, top to bottom
GroupLines(words) ==
  LET keys == Ascending({Round1(words[i].top) : i \in 1..Len(words)})
  IN [n \in 1..Len(keys) |->
        << keys[n],
           SortByX0(SelectSeq(words, LAMBDA w : Round1(w.top) = keys[n])) >>]

IsQuantityLabel(w) == lower(strip(w.text)) = <<"q","u","a","n","t","i","t","y">>
IsValeoLabel(w) == contains(lower(strip(w.text)), <<"v","a","l","e","o">>)

\* lines 118-120: "quantity" in texts_lower and any("valeo" in t ...)
IsHeaderLine(ws) ==
  /\ \E i \in 1..Len(ws) : IsQuantityLabel(ws[i])
  /\ \E i \in 1..Len(ws) : IsValeoLabel(ws[i])

\* Mutant: without a header line the first line of the page is taken.
FindHeaderGuess(ls) ==
  LET hits == {n \in 1..Len(ls) : IsHeaderLine(ls[n][2])}
  IN IF hits = {} THEN (IF Len(ls) > 0 THEN 1 ELSE 0) ELSE SetMin(hits)

\* Mutant: the loop does not stop at the first header line, so the last one wins.
FindHeaderLast(ls) ==
  LET hits == {n \in 1..Len(ls) : IsHeaderLine(ls[n][2])}
  IN IF hits = {} THEN 0 ELSE SetMax(hits)

\* lines 117-122: index of the first header line, 0 when header is None
FindHeader(ls) ==
  LET hits == {n \in 1..Len(ls) : IsHeaderLine(ls[n][2])}
  IN IF hits = {} THEN 0 ELSE SetMin(hits)

\* line 132
QtyWindow(hws, width) ==
  LET qty_hdrs == SelectSeq(hws, IsQuantityLabel)
  IN IF qty_hdrs # <<>>
     THEN << SetMin({qty_hdrs[i].x0 : i \in 1..Len(qty_hdrs)}) - 1,
             SetMax({qty_hdrs[i].x1 : i \in 1..Len(qty_hdrs)}) + 60 >>
     ELSE << (width * 75) \div 100, (width * 95) \div 100 >>
\* line 133
ValeoWindow(hws, width) ==
  LET valeo_hdrs == SelectSeq(hws, IsValeoLabel)
  IN IF valeo_hdrs # <<>>
     THEN << SetMin({valeo_hdrs[i].x0 : i \in 1..Len(valeo_hdrs)}) - 10,
             SetMax({valeo_hdrs[i].x1 : i \in 1..Len(valeo_hdrs)}) + 20 >>
     ELSE << (width * 45) \div 100, (width * 70) \div 100 >>

\* Mutant: the window excludes its two ends.
InWindowStrict(win, w) == win[1] < w.x0 /\ w.x0 < win[2]

InWindow(win, w) == win[1] <= w.x0 /\ w.x0 <= win[2]

Texts(ws) == [i \in 1..Len(ws) |-> ws[i].text]

\* Mutant: a parcel id, once set, is kept.
UpdateParcelOnce(ws, parcel) ==
  IF parcel = None /\ \E i \in 1..Len(ws) : PALLET_WORD(ws[i].text)
  THEN LET parcel_tokens == SelectSeq(Texts(ws), PARCEL_ID)
       IN IF parcel_tokens # <<>> THEN parcel_tokens[1] ELSE parcel
  ELSE parcel

\* lines 143-147: current_parcel after the PALLET test of a line
UpdateParcel(ws, parcel) ==
  IF \E i \in 1..Len(ws) : PALLET_WORD(ws[i].text)
  THEN LET parcel_tokens == SelectSeq(Texts(ws), PARCEL_ID)
       IN IF parcel_tokens # <<>> THEN parcel_tokens[1] ELSE parcel
  ELSE parcel

\* lines 156-157
SupplierTokens(ws, vwin) ==
  Texts(SelectSeq(ws, LAMBDA w : InWindow(vwin, w) /\ SUPPLIER_ID(w.text)))
\* lines 163-164
QtyTokens(ws, qwin) ==
  Texts(SelectSeq(ws, LAMBDA w : InWindow(qwin, w) /\ INT_ONLY(w.text)))

Parcel(r) == r[1]
Material(r) == r[2]
Quantity(r) == r[3]

\* Mutant: no test of current_parcel before the item is looked for.
walk_line_no_parcel_test(y, ws, hy, qwin, vwin, parcel) ==
  IF y <= hy THEN [current_parcel |-> parcel, row |-> None]
  ELSE IF SKIP_LINE(join(<<" ">>, Texts(ws))) THEN [current_parcel |-> parcel, row |-> None]
  ELSE LET p == UpdateParcel(ws, parcel)
           supplier_tokens == SupplierTokens(ws, vwin)
           qty_tokens == QtyTokens(ws, qwin)
       IN IF supplier_tokens = <<>> THEN [current_parcel |-> p, row |-> None]
          ELSE IF qty_tokens = <<>> THEN [current_parcel |-> p, row |-> None]
          ELSE [current_parcel |-> p,
                row |-> << p, supplier_tokens[1], int(qty_tokens[Len(qty_tokens)]) >>]

\* Mutant: the item is attributed to the parcel that was current before the line.
walk_line_stale_parcel(y, ws, hy, qwin, vwin, parcel) ==
  IF y <= hy THEN [current_parcel |-> parcel, row |-> None]
  ELSE IF SKIP_LINE(join(<<" ">>, Texts(ws))) THEN [current_parcel |-> parcel, row |-> None]
  ELSE LET p == UpdateParcel(ws, parcel)
           supplier_tokens == SupplierTokens(ws, vwin)
           qty_tokens == QtyTokens(ws, qwin)
       IN IF parcel = None \/ parcel = <<>> THEN [current_parcel |-> p, row |-> None]
          ELSE IF supplier_tokens = <<>> THEN [current_parcel |-> p, row |-> None]
          ELSE IF qty_tokens = <<>> THEN [current_parcel |-> p, row |-> None]
          ELSE [current_parcel |-> p,
                row |-> << parcel, supplier_tokens[1], int(qty_tokens[Len(qty_tokens)]) >>]

\* Mutant: the walk starts at the header line instead of below it.
walk_line_from_header(y, ws, hy, qwin, vwin, parcel) ==
  IF y < hy THEN [current_parcel |-> parcel, row |-> None]
  ELSE IF SKIP_LINE(join(<<" ">>, Texts(ws))) THEN [current_parcel |-> parcel, row |-> None]
  ELSE LET p == UpdateParcel(ws, parcel)
           supplier_tokens == SupplierTokens(ws, vwin)
           qty_tokens == QtyTokens(ws, qwin)
       IN IF p = None \/ p = <<>> THEN [current_parcel |-> p, row |-> None]
          ELSE IF supplier_tokens = <<>> THEN [current_parcel |-> p, row |-> None]
          ELSE IF qty_tokens = <<>> THEN [current_parcel |-> p, row |-> None]
          ELSE [current_parcel |-> p,
                row |-> << p, supplier_tokens[1], int(qty_tokens[Len(qty_tokens)]) >>]

\* Mutant: the boilerplate test comes after the PALLET test.
walk_line_skip_after_parcel(y, ws, hy, qwin, vwin, parcel) ==
  IF y <= hy THEN [current_parcel |-> parcel, row |-> None]
  ELSE LET p == UpdateParcel(ws, parcel)
           supplier_tokens == SupplierTokens(ws, vwin)
           qty_tokens == QtyTokens(ws, qwin)
       IN IF SKIP_LINE(join(<<" ">>, Texts(ws))) THEN [current_parcel |-> p, row |-> None]
          ELSE IF p = None \/ p = <<>> THEN [current_parcel |-> p, row |-> None]
          ELSE IF supplier_tokens = <<>> THEN [current_parcel |-> p, row |-> None]
          ELSE IF qty_tokens = <<>> THEN [current_parcel |-> p, row |-> None]
          ELSE [current_parcel |-> p,
                row |-> << p, supplier_tokens[1], int(qty_tokens[Len(qty_tokens)]) >>]

\* One iteration of the walk (lines 136-169): the new current_parcel and the
\* row appended (None when the iteration ends in a continue).
walk_line(y, ws, hy, qwin, vwin, parcel) ==
  IF y <= hy THEN [current_parcel |-> parcel, row |-> None]
  ELSE IF SKIP_LINE(join(<<" ">>, Texts(ws))) THEN [current_parcel |-> parcel, row |-> None]
  ELSE LET p == UpdateParcel(ws, parcel)
           supplier_tokens == SupplierTokens(ws, vwin)
           qty_tokens == QtyTokens(ws, qwin)
       IN IF p = None \/ p = <<>> THEN [current_parcel |-> p, row |-> None]
          ELSE IF supplier_tokens = <<>> THEN [current_parcel |-> p, row |-> None]
          ELSE IF qty_tokens = <<>> THEN [current_parcel |-> p, row |-> None]
          ELSE [current_parcel |-> p,
                row |-> << p, supplier_tokens[1], int(qty_tokens[Len(qty_tokens)]) >>]

\* line 103: "PACKING LIST" in page_text.upper(), page_text = extract_text() or ""
HasMarker(text) ==
  contains(upper(IF text = None THEN <<>> ELSE text), <<"P","A","C","K","I","N","G"," ","L","I","S","T">>)

-----------------------------------------------------------------------------
(* Inputs.                                                                 *)

SeqsUpTo(S, lo, hi) == UNION {[1..n -> S] : n \in lo..hi}

\* Lines of invoice page text.
LineInvoiceNo == <<"I","n","v","o","i","c","e"," ","6","9","5","0","0","0","0","0","1">>
LineItem == <<"1","0","0","1","2","3","4","5"," ","7","7"," ","5"," ","P","L"," ","9","0","4","5","1","0"," ","1","2",",","5","0"," ","1","2","5",",","0","0">>
LineItemOwnNo == <<"6","9","5","0","0","0","0","0","2"," ","7","7"," ","5"," ","P","L"," ","9","0","4","5","1","0"," ","1",".","2","3","4",",","5","6"," ",".",",">>
LineBoilerplate == <<"C","u","r","r","e","n","c","y"," ","6","9","5","0","0","0","0","0","3"," ","9"," ","5"," ","P","L"," ","9","0","4","5","1","0"," ","1",",","0"," ","2",",","0">>
LineBlank == <<" "," ">>
LineCatalogue == {LineInvoiceNo, LineItem, LineItemOwnNo, LineBoilerplate, LineBlank}
PageBreak == <<"PageBreak">>

\* The pages of a document given as lines and page breaks: extract_text() of
\* each page, None for a page without text.
RECURSIVE PagesOf(_, _, _)
PagesOf(items, cur, acc) ==
  LET page == IF cur = <<>> THEN None ELSE join(<<"\n">>, cur)
  IN IF items = <<>> THEN Append(acc, page)
     ELSE IF Head(items) = PageBreak THEN PagesOf(Tail(items), <<>>, Append(acc, page))
     ELSE PagesOf(Tail(items), Append(cur, Head(items)), acc)

InvoiceDocs ==
  {PagesOf(items, <<>>, <<>>) :
     items \in SeqsUpTo(LineCatalogue \cup {PageBreak}, 0, MaxDocItems)}

\* One-line documents: every line of MinTok-1 .. MaxTokens tokens.
TokenCatalogue == { <<"5">>, <<"9","0","4","5","1","0">>, <<"P","L">> }
OneLineDocs ==
  {<<join(<<" ">>, toks)>> : toks \in SeqsUpTo(TokenCatalogue, MinTok - 1, MaxTokens)}

\* Rows of words of a packing page, in text-flow order: [text, x0, x1].
Word(t, a, b) == [text |-> t, x0 |-> a, x1 |-> b]
RowHeader == << Word(<<"V","A","L","E","O">>, 100, 130), Word(<<"Q","u","a","n","t","i","t","y">>, 400, 440) >>
RowGroup ==
  << Word(<<"9","0","0","1","2","3">>, 20, 60), Word(<<"P","A","L","L","E","T">>, 200, 240),
     Word(<<"7","6","5","4","3","2","1">>, 300, 350), Word(<<"4">>, 420, 425) >>
RowGroupPlural == << Word(<<"9","0","0","1","2","5">>, 20, 60), Word(<<"P","a","l","l","e","t","s">>, 200, 240) >>
RowGroupItem ==
  << Word(<<"P","a","l","l","e","t",":">>, 20, 60), Word(<<"9","0","0","1","2","4">>, 110, 150), Word(<<"7">>, 410, 415) >>
RowItem ==
  << Word(<<"8">>, 500, 505), Word(<<"5","4","3","2","1">>, 130, 160), Word(<<"1","2","3","4","5">>, 90, 120),
     Word(<<"3">>, 405, 410) >>
RowPartial ==
  << Word(<<"1","2","3","4","5">>, 110, 140), Word(<<"7">>, 300, 305), Word(<<"7","0","0","0","0">>, 410, 440) >>
RowSkip ==
  << Word(<<"D","i","m","e","n","s","i","o","n","s">>, 20, 80), Word(<<"9","0","0","1","2","6">>, 110, 150), Word(<<"P","A","L","L","E","T">>, 200, 240),
     Word(<<"7">>, 410, 415) >>
RowSkipWeight ==
  << Word(<<"T","o","t","a","l">>, 20, 50), Word(<<"g","r","o","s","s">>, 60, 90), Word(<<"W","E","I","G","H","T",":">>, 100, 105),
     Word(<<"9","0","0","1","2","7">>, 110, 150), Word(<<"P","A","L","L","E","T">>, 200, 240), Word(<<"2">>, 410, 415) >>
\* a second row with both labels, and an item under the windows of RowHeader
RowHeaderLow ==
  << Word(<<"5","4","3","2","1">>, 100, 130), Word(<<"V","a","l","e","o","-","N","r">>, 300, 340), Word(<<"6">>, 420, 425),
     Word(<<"Q","U","A","N","T","I","T","Y">>, 500, 560) >>
RowCatalogue ==
  {RowHeader, RowGroup, RowGroupPlural, RowGroupItem, RowItem, RowPartial, RowSkip,
   RowSkipWeight, RowHeaderLow}

\* tops in hundredths of a unit: 10.00 and 10.04 round to the same tenth, and
\* 12.00, less than three units below them, to another
TopValues == {1000, 1004, 1200}

PageTexts == { <<"V","a","l","e","o"," ","P","a","c","k","i","n","g"," ","L","i","s","t"," ","1","/","2">>, <<"I","N","V","O","I","C","E">>, None }

\* extract_words(): the words of the rows, each row at its top
RECURSIVE WordsOf(_)
WordsOf(entries) ==
  IF entries = <<>> THEN <<>>
  ELSE LET row == Head(entries)[1]
           top == Head(entries)[2]
       IN [i \in 1..Len(row) |->
             [text |-> row[i].text, x0 |-> row[i].x0, x1 |-> row[i].x1, top |-> top]]
          \o WordsOf(Tail(entries))

Pages ==
  {[text |-> t, words |-> WordsOf(entries), width |-> 595] :
     t \in PageTexts, entries \in SeqsUpTo(RowCatalogue \X TopValues, 0, MaxRows)}

-----------------------------------------------------------------------------
(* The state machine.                                                      *)

\* A row of a page as the claims speak of it, from the words as extracted:
\* the words whose tops round to the same tenth.
SameRow(w1, w2) == Round1(w1.top) = Round1(w2.top)
WordSet(words) == {words[i] : i \in 1..Len(words)}

\* a row carrying the group keyword as a whole word and a token of 6+ digits
GroupHeaderRow(ws) ==
  /\ \E i \in 1..Len(ws) : PALLET_WORD(ws[i].text)
  /\ \E i \in 1..Len(ws) : PARCEL_ID(ws[i].text)

\* What the history variable page_info records of the page taken last, until
\* the walk of its lines ends: the marker, a header row, group and item rows.
PageInfo(page) ==
  [ marker |-> HasMarker(page.text),
    header |-> \E w1, w2 \in WordSet(page.words) :
                 SameRow(w1, w2) /\ IsQuantityLabel(w1) /\ IsValeoLabel(w2),
    rows   |-> /\ \E w1, w2 \in WordSet(page.words) :
                    SameRow(w1, w2) /\ PALLET_WORD(w1.text) /\ PARCEL_ID(w2.text)
               /\ \E w1, w2 \in WordSet(page.words) :
                    SameRow(w1, w2) /\ SUPPLIER_ID(w1.text) /\ INT_ONLY(w2.text) ]
NoPage == [marker |-> FALSE, header |-> FALSE, rows |-> FALSE]

\* What the history variable prior records when a document follows another:
\* n documents are done; dirty: the last one ended with a current_inv or a
\* current_parcel that is not None; rerun: the document that starts is the one
\* just done, whose invoice table was rows.
NoPrior == [n |-> 0, rerun |-> FALSE, dirty |-> FALSE, rows |-> <<>>]

\* the line of the walk is below the header and no boilerplate line
Eligible(y, ws, hy) == y > hy /\ ~SKIP_LINE(join(<<" ">>, Texts(ws)))

InitInvoiceLocals ==
  /\ text_lines = <<>>
  /\ pos = 1
  /\ inv_rows = <<>>
  /\ current_inv = None
  /\ j = NoIndex
  /\ inv_src = <<>>

InitPackingLocals ==
  /\ pack_rows = <<>>
  /\ current_parcel = None
  /\ page_no = 0
  /\ lines = <<>>
  /\ idx = 1
  /\ header_y = 0
  /\ qty_win = <<0, 0>>
  /\ valeo_win = <<0, 0>>
  /\ seen_group = FALSE
  /\ page_info = NoPage

\* autodetect runs the two parsers one after the other on the same pdf; they
\* share no variable, so a behaviour follows one of them.
InitInvoice(docs) ==
  /\ pc = "read_all_text"
  /\ pdf \in docs
  /\ InitInvoiceLocals
  /\ InitPackingLocals
  /\ prior = NoPrior

InitPacking ==
  /\ pc = "pages"
  /\ pdf = <<>>
  /\ InitInvoiceLocals
  /\ InitPackingLocals
  /\ prior = NoPrior

Init == InitInvoice(InvoiceDocs) \/ InitPacking

\* lines 175-176, 26-30: text = read_all_text(pdf); rows = []; current_inv = None
ReadAllText ==
  /\ pc = "read_all_text"
  /\ text_lines' = NonBlankLines(read_all_text(pdf))
  /\ pos' = 1
  /\ pc' = "invoice"
  /\ UNCHANGED <<pdf, inv_rows, current_inv, j, inv_src>>
  /\ UNCHANGED packVars
  /\ UNCHANGED prior

\* lines 30-74: one iteration of the loop over the lines
InvoiceLine ==
  /\ pc = "invoice"
  /\ pos <= Len(text_lines)
  /\ LET r == invoice_line(text_lines[pos], current_inv, j)
     IN /\ current_inv' = r.current_inv
        /\ j' = r.j
        /\ inv_rows' = IF r.row = None THEN inv_rows ELSE Append(inv_rows, r.row)
        /\ inv_src' = IF r.row = None THEN inv_src ELSE Append(inv_src, pos)
  /\ pos' = pos + 1
  /\ UNCHANGED <<pc, pdf, text_lines>>
  /\ UNCHANGED packVars
  /\ UNCHANGED prior

\* line 76: return
InvoiceReturn ==
  /\ pc = "invoice"
  /\ pos > Len(text_lines)
  /\ pc' = "invoice_done"
  /\ UNCHANGED invVars
  /\ UNCHANGED packVars
  /\ UNCHANGED prior

\* lines 101-133: the next page of pdf.pages, up to the walk of its lines
OpenPage(page) ==
  /\ pc = "pages"
  /\ page_no < MaxPages
  /\ page_no' = page_no + 1
  /\ page_info' = PageInfo(page)
  /\ LET ls == GroupLines(page.words)
         h == FindHeader(ls)
     IN IF ~HasMarker(page.text) \/ page.words = <<>> \/ h = 0
        THEN UNCHANGED <<pc, lines, idx, header_y, qty_win, valeo_win>>
        ELSE /\ pc' = "walk"
             /\ lines' = ls
             /\ idx' = 1
             /\ header_y' = ls[h][1]
             /\ qty_win' = QtyWindow(ls[h][2], page.width)
             /\ valeo_win' = ValeoWindow(ls[h][2], page.width)
  /\ UNCHANGED <<pack_rows, current_parcel, seen_group>>
  /\ UNCHANGED invVars
  /\ UNCHANGED prior

\* Mutant: a row equal to one already in the table is not appended.
WalkLineNoDuplicates ==
  /\ pc = "walk"
  /\ idx <= Len(lines)
  /\ LET r == walk_line(lines[idx][1], lines[idx][2], header_y, qty_win, valeo_win,
                        current_parcel)
     IN /\ current_parcel' = r.current_parcel
        /\ pack_rows' = IF r.row = None \/ \E n \in 1..Len(pack_rows) : pack_rows[n] = r.row
                        THEN pack_rows ELSE Append(pack_rows, r.row)
  /\ seen_group' = (seen_group \/ (Eligible(lines[idx][1], lines[idx][2], header_y)
                                     /\ GroupHeaderRow(lines[idx][2])))
  /\ idx' = idx + 1
  /\ UNCHANGED <<pc, page_no, lines, header_y, qty_win, valeo_win, page_info>>
  /\ UNCHANGED invVars
  /\ UNCHANGED prior

\* lines 136-169: one iteration of the walk over the lines of the page
WalkLine ==
  /\ pc = "walk"
  /\ idx <= Len(lines)
  /\ LET r == walk_line(lines[idx][1], lines[idx][2], header_y, qty_win, valeo_win,
                        current_parcel)
     IN /\ current_parcel' = r.current_parcel
        /\ pack_rows' = IF r.row = None THEN pack_rows ELSE Append(pack_rows, r.row)
  /\ seen_group' = (seen_group \/ (Eligible(lines[idx][1], lines[idx][2], header_y)
                                     /\ GroupHeaderRow(lines[idx][2])))
  /\ idx' = idx + 1
  /\ UNCHANGED <<pc, page_no, lines, header_y, qty_win, valeo_win, page_info>>
  /\ UNCHANGED invVars
  /\ UNCHANGED prior

\* Mutant: current_parcel is reset at the end of each page.
EndWalkResetParcel ==
  /\ pc = "walk"
  /\ idx > Len(lines)
  /\ pc' = "pages"
  /\ lines' = <<>>
  /\ idx' = 1
  /\ header_y' = 0
  /\ qty_win' = <<0, 0>>
  /\ valeo_win' = <<0, 0>>
  /\ page_info' = NoPage
  /\ current_parcel' = None
  /\ UNCHANGED <<pack_rows, page_no, seen_group>>
  /\ UNCHANGED invVars
  /\ UNCHANGED prior

\* end of the walk: back to the loop over the pages (the page's lines, header
\* and windows are dead from here on)
EndWalk ==
  /\ pc = "walk"
  /\ idx > Len(lines)
  /\ pc' = "pages"
  /\ lines' = <<>>
  /\ idx' = 1
  /\ header_y' = 0
  /\ qty_win' = <<0, 0>>
  /\ valeo_win' = <<0, 0>>
  /\ page_info' = NoPage
  /\ UNCHANGED <<pack_rows, current_parcel, page_no, seen_group>>
  /\ UNCHANGED invVars
  /\ UNCHANGED prior

\* line 171: return, after the last page
PackingReturn ==
  /\ pc = "pages"
  /\ pc' = "packing_done"
  /\ UNCHANGED packVars
  /\ UNCHANGED invVars
  /\ UNCHANGED prior

\* Mutant: current_inv and current_parcel live on from one document to the next.
NextDocumentKeepState(doc) ==
  /\ pc \in {"invoice_done", "packing_done"}
  /\ prior.n + 1 < MaxDocs
  /\ \/ pc' = "read_all_text" /\ doc \in InvoiceDocs
     \/ pc' = "pages" /\ doc = <<>>
  /\ pdf' = doc
  /\ prior' = [ n |-> prior.n + 1,
                rerun |-> pc = "invoice_done" /\ pc' = "read_all_text" /\ doc = pdf,
                dirty |-> current_inv # None \/ current_parcel # None,
                rows |-> IF pc = "invoice_done" /\ pc' = "read_all_text" /\ doc = pdf
                         THEN inv_rows ELSE <<>> ]
  /\ text_lines' = <<>>
  /\ pos' = 1
  /\ inv_rows' = <<>>
  /\ j' = NoIndex
  /\ inv_src' = <<>>
  /\ pack_rows' = <<>>
  /\ page_no' = 0
  /\ seen_group' = FALSE
  /\ UNCHANGED <<current_inv, current_parcel, lines, idx, header_y, qty_win, valeo_win, page_info>>

\* lines 182-187: the next upload; autodetect calls the parsers anew, and each
\* call starts from rows = [] and current_inv / current_parcel = None
NextDocument(doc) ==
  /\ pc \in {"invoice_done", "packing_done"}
  /\ prior.n + 1 < MaxDocs
  /\ \/ pc' = "read_all_text" /\ doc \in InvoiceDocs
     \/ pc' = "pages" /\ doc = <<>>
  /\ pdf' = doc
  /\ prior' = [ n |-> prior.n + 1,
                rerun |-> pc = "invoice_done" /\ pc' = "read_all_text" /\ doc = pdf,
                dirty |-> current_inv # None \/ current_parcel # None,
                rows |-> IF pc = "invoice_done" /\ pc' = "read_all_text" /\ doc = pdf
                         THEN inv_rows ELSE <<>> ]
  /\ text_lines' = <<>>
  /\ pos' = 1
  /\ inv_rows' = <<>>
  /\ current_inv' = None
  /\ j' = NoIndex
  /\ inv_src' = <<>>
  /\ pack_rows' = <<>>
  /\ current_parcel' = None
  /\ page_no' = 0
  /\ seen_group' = FALSE
  /\ UNCHANGED <<lines, idx, header_y, qty_win, valeo_win, page_info>>

\* parse_valeo_invoice_text
NextInvoice ==
  \/ ReadAllText
  \/ InvoiceLine
  \/ InvoiceReturn

\* parse_valeo_packing_pdf
NextPacking ==
  \/ \E page \in Pages : OpenPage(page)
  \/ WalkLine
  \/ EndWalk
  \/ PackingReturn

Next == NextInvoice \/ NextPacking

Spec == Init /\ [][Next]_vars

\* The invoice scanner on every one-line document over the token catalogue,
\* and on the example line of the specification.
InitLine == InitInvoice(OneLineDocs \cup {<<LineItem>>})
SpecLine == InitLine /\ [][NextInvoice]_vars

\* Several uploads, one after the other (the loop of lines 182-188).
NextDocs == Next \/ \E doc \in InvoiceDocs \cup {<<>>} : NextDocument(doc)
SpecDocs == Init /\ [][NextDocs]_vars

-----------------------------------------------------------------------------
(* Vocabulary of the properties, stated from the tokens themselves.         *)

\* t is a string of lo..hi decimal digits
IsDigits(t, lo, hi) ==
  Len(t) \in lo..hi /\ \A i \in 1..Len(t) : t[i] \in Digit

\* the integer a string of digits denotes, most significant digit first
RECURSIVE ValueFrom(_, _, _)
ValueFrom(t, i, acc) ==
  IF i > Len(t) THEN acc ELSE ValueFrom(t, i + 1, 10 * acc + DigitVal(t[i]))
ValueOf(t) == ValueFrom(t, 1, 0)

Last(s) == s[Len(s)]
\* s2 is s1 with exactly one element appended
OneAppended(s1, s2) == Len(s2) = Len(s1) + 1 /\ SubSeq(s2, 1, Len(s1)) = s1

\* the walk is about to process a line, and the step processes it
AtWalk == pc = "walk" /\ idx <= Len(lines)
WalkStep == AtWalk /\ idx' = idx + 1
\* the line the walk processed last
Walked == pc = "walk" /\ idx > 1
WalkedY == lines[idx - 1][1]
WalkedWs == lines[idx - 1][2]

\* the tokens of a row that lie in the material window and are 4-8 digits
MaterialCands(ws) ==
  {w \in WordSet(ws) : valeo_win[1] <= w.x0 /\ w.x0 <= valeo_win[2] /\ IsDigits(w.text, 4, 8)}
\* the tokens of a row that lie in the quantity window and are 1-4 digits
QtyCands(ws) ==
  {w \in WordSet(ws) : qty_win[1] <= w.x0 /\ w.x0 <= qty_win[2] /\ IsDigits(w.text, 1, 4)}
Leftmost(S) == {w \in S : \A v \in S : w.x0 <= v.x0}
Rightmost(S) == {w \in S : \A v \in S : w.x0 >= v.x0}
\* the tokens of 6 or more digits of a row
IdCands(ws) == {w \in WordSet(ws) : Len(w.text) >= 6 /\ \A i \in 1..Len(w.text) : w.text[i] \in Digit}

\* the invoice loop is about to process a line, and the step processes it
AtLine == pc = "invoice" /\ pos <= Len(text_lines)
LineStep == AtLine /\ pos' = pos + 1
\* the indices k (0-based) of a token list that qualify as anchors
QualifyingK(tok) ==
  {k \in 2..(Len(tok) - 3) :
     /\ Len(At(tok, k)) = 2 /\ \A i \in 1..2 : At(tok, k)[i] \in UpperCase
     /\ IsDigits(At(tok, k + 1), 6, 8)
     /\ IsDigits(At(tok, k - 1), 1, Len(At(tok, k - 1)))}
\* the anchor scan is reached on a line: no boilerplate prefix, 7 tokens or
\* more, the last two decimal-shaped
ReachesScan(line) ==
  LET tok == split(line) IN
  /\ \A p \in BoilerplatePrefixes : ~startswith(lower(line), p)
  /\ Len(tok) >= 7
  /\ \A t \in {tok[Len(tok)], tok[Len(tok) - 1]} :
       Len(t) >= 1 /\ \A i \in 1..Len(t) : t[i] \in Digit \cup {".", ","}
\* the indices (0-based) below k-1 of the all-digit tokens
SupplierCands(tok, k) == {i \in 0..(k - 2) : IsDigits(At(tok, i), 1, Len(At(tok, i)))}

-----------------------------------------------------------------------------
(* C1: in the packing scanner no record is emitted before the first         *)
(* group-header row of the document has been processed, even from a row     *)
(* with a material token and a quantity token inside their windows; every   *)
(* record of the table has a parcel id that is not None.                    *)
C1_NoRecordBeforeGroupHeader ==
  /\ ~seen_group => pack_rows = <<>>
  /\ \A n \in 1..Len(pack_rows) :
       Parcel(pack_rows[n]) # None /\ Parcel(pack_rows[n]) # <<>>

\* an eligible row with both item tokens was walked before any group header
C1_Witness ==
  /\ Walked
  /\ ~seen_group
  /\ Eligible(WalkedY, WalkedWs, header_y)
  /\ MaterialCands(WalkedWs) # {}
  /\ QtyCands(WalkedWs) # {}
  /\ pack_rows = <<>>

(* C2: a packing page none of whose rows holds both the quantity label and  *)
(* a material label contributes no record and changes no parcel id,          *)
(* whatever its rows and the current parcel id; the loop goes on to the      *)
(* next page.                                                                *)
C2_HeaderlessPageEmitsNothing ==
  [][ (pc = "pages" /\ page_no' = page_no + 1 /\ ~page_info'.header)
        => /\ pc' = "pages"
           /\ pack_rows' = pack_rows
           /\ current_parcel' = current_parcel ]_vars

\* a page with the marker, group and item rows but no header row was taken
\* while a parcel id was current
C2_Witness ==
  /\ pc = "pages"
  /\ page_no = 2
  /\ page_info.marker /\ page_info.rows /\ ~page_info.header
  /\ current_parcel # None

(* C3: on a line that reaches the anchor scan (7 tokens or more, the last   *)
(* two decimal-shaped) the anchor index chosen is the greatest k with        *)
(* 2 <= k <= length-3, token[k] two uppercase letters, token[k+1] 6-8        *)
(* digits and token[k-1] digits; when no k qualifies no record is emitted.   *)
C3_AnchorIsRightmost ==
  [][ (LineStep /\ ReachesScan(text_lines[pos]))
        => LET K == QualifyingK(split(text_lines[pos])) IN
           IF K = {} THEN j' = NoIndex /\ inv_rows' = inv_rows
           ELSE j' = SetMax(K) ]_vars

\* a line with several qualifying anchors was scanned and gave a record
C3_Witness ==
  /\ pc = "invoice" /\ pos = 2
  /\ ReachesScan(text_lines[1])
  /\ Cardinality(QualifyingK(split(text_lines[1]))) >= 2
  /\ j = SetMax(QualifyingK(split(text_lines[1])))
  /\ Len(inv_rows) = 1

(* C4: on a line where an anchor k is found, quantity is the integer value  *)
(* of token[k-1] and supplier_id the leftmost all-digit token below index   *)
(* k-1; without such a token no record is emitted.  The line                 *)
(* 10012345 77 5 PL 904510 12,50 125,00 gives k=3, quantity 5 and            *)
(* supplier_id 10012345.                                                     *)
C4_QuantityAndSupplier ==
  [][ (LineStep /\ ReachesScan(text_lines[pos])
         /\ QualifyingK(split(text_lines[pos])) # {})
        => LET tok == split(text_lines[pos])
               k == j'
               S == SupplierCands(tok, k)
           IN /\ IF S = {} THEN inv_rows' = inv_rows
                 ELSE /\ OneAppended(inv_rows, inv_rows')
                      /\ Qty(Last(inv_rows')) = ValueOf(At(tok, k - 1))
                      /\ Supplier_ID(Last(inv_rows')) = At(tok, SetMin(S))
              /\ text_lines[pos] = LineItem
                   => /\ k = 3
                      /\ Qty(Last(inv_rows')) = 5
                      /\ Supplier_ID(Last(inv_rows')) = <<"1","0","0","1","2","3","4","5">> ]_vars

\* the example line was scanned and gave its record
C4_Witness ==
  /\ pc = "invoice" /\ pos = 2
  /\ text_lines = <<LineItem>>
  /\ j = 3
  /\ Len(inv_rows) = 1
  /\ Qty(inv_rows[1]) = 5
  /\ Supplier_ID(inv_rows[1]) = <<"1","0","0","1","2","3","4","5">>

\* the non-blank lines of the pages, page after page
RECURSIVE LinesOfPages(_)
LinesOfPages(pages) ==
  IF pages = <<>> THEN <<>>
  ELSE (IF Head(pages) = None THEN <<>>
        ELSE SelectSeq(splitlines(Head(pages)),
                       LAMBDA l : \E i \in 1..Len(l) : l[i] \notin Space))
       \o LinesOfPages(Tail(pages))
\* the invoice number of the last line among the first m that holds one
LastInvoiceNo(ls, m) ==
  LET M == {i \in 1..m : inv_re(ls[i]) # None}
  IN IF M = {} THEN None ELSE inv_re(ls[SetMax(M)])

(* C5: the invoice_no of every record is the invoice number matched on the  *)
(* most recent line at or before the record's line, over the lines of all   *)
(* pages in document order, and None exactly when no such line matched.      *)
C5_InvoiceNoIsMostRecent ==
  pc \in {"invoice", "invoice_done"} =>
    /\ text_lines = LinesOfPages(pdf)
    /\ Len(inv_src) = Len(inv_rows)
    /\ \A n \in 1..Len(inv_rows) :
         /\ inv_src[n] \in 1..(pos - 1)
         /\ InvoiceNo(inv_rows[n]) = LastInvoiceNo(text_lines, inv_src[n])

\* a record on the second page carries the number seen on the first page
C5_Witness ==
  /\ pc = "invoice_done"
  /\ pdf = <<LineInvoiceNo, LineItem>>
  /\ Len(inv_rows) = 1
  /\ InvoiceNo(inv_rows[1]) = <<"6","9","5","0","0","0","0","0","1">>

\* a line that passes every test of the invoice scanner
QualifyingLine(line) ==
  /\ ReachesScan(line)
  /\ QualifyingK(split(line)) # {}
  /\ SupplierCands(split(line), SetMax(QualifyingK(split(line)))) # {}
\* the line about to be walked passes every test of the packing scanner
QualifyingRow ==
  LET ws == lines[idx][2] IN
  /\ Eligible(lines[idx][1], ws, header_y)
  /\ current_parcel # None \/ GroupHeaderRow(ws)
  /\ MaterialCands(ws) # {}
  /\ QtyCands(ws) # {}

(* C6: in both pipelines the table is the sequence of the records of the    *)
(* qualifying lines or rows in scan order: a step on a qualifying line or   *)
(* row appends exactly one record at the end, the i-th record comes from    *)
(* the i-th qualifying line, and no other step changes a table, so equal    *)
(* qualifying lines or rows give equal records, each kept.                   *)
C6_TablesFollowScanOrder ==
  [][ /\ LineStep =>
           IF QualifyingLine(text_lines[pos])
           THEN OneAppended(inv_rows, inv_rows') /\ inv_src' = Append(inv_src, pos)
           ELSE inv_rows' = inv_rows /\ inv_src' = inv_src
      /\ ~LineStep => inv_rows' = inv_rows
      /\ pc' = "invoice" =>
           inv_src' = Ascending({i \in 1..(pos' - 1) : QualifyingLine(text_lines'[i])})
      /\ WalkStep =>
           IF QualifyingRow
           THEN /\ OneAppended(pack_rows, pack_rows')
                /\ Parcel(Last(pack_rows')) = current_parcel'
                /\ \E w \in Leftmost(MaterialCands(lines[idx][2])) :
                     Material(Last(pack_rows')) = w.text
                /\ \E w \in Rightmost(QtyCands(lines[idx][2])) :
                     Quantity(Last(pack_rows')) = ValueOf(w.text)
           ELSE pack_rows' = pack_rows
      /\ ~WalkStep => pack_rows' = pack_rows ]_vars

\* the same group-and-item row on two pages gave two equal records
C6_Witness ==
  /\ pc = "walk" /\ page_no = 2 /\ idx > Len(lines)
  /\ Len(pack_rows) = 2
  /\ pack_rows[1] = pack_rows[2]

(* C7: within a document current_parcel changes only when a group-header   *)
(* row is processed by the walk; page boundaries, skipped pages, skip rows, *)
(* item rows and rejected rows leave it as it is, so an item row on a later *)
(* page is attributed to the parcel id set on an earlier page.               *)
C7_ParcelChangesOnlyOnGroupHeader ==
  [][ current_parcel' # current_parcel
        => /\ WalkStep
           /\ Eligible(lines[idx][1], lines[idx][2], header_y)
           /\ GroupHeaderRow(lines[idx][2])
           /\ \E w \in Leftmost(IdCands(lines[idx][2])) : current_parcel' = w.text ]_vars

\* the second page has no group-header row and its item row gave a record
\* with the parcel id of the first page
C7_Witness ==
  /\ pc = "walk" /\ page_no = 2 /\ idx > Len(lines)
  /\ \A n \in 1..Len(lines) : ~GroupHeaderRow(lines[n][2])
  /\ \E n \in 1..Len(lines) :
       Eligible(lines[n][1], lines[n][2], header_y) /\ MaterialCands(lines[n][2]) # {}
  /\ pack_rows = << << <<"9","0","0","1","2","3">>, <<"1","2","3","4","5">>, 8 >> >>

\* a token holds the group keyword as a substring, whatever the case
KeywordSubstring(t) == contains(lower(t), <<"p","a","l","l","e","t">>)

(* C8 as claimed: every eligible row with a token of 6 or more digits and a *)
(* token holding the group keyword as a case-insensitive substring sets      *)
(* current_parcel to that digit token's text.                                *)
C8_SubstringKeywordSetsParcel ==
  [][ (WalkStep /\ Eligible(lines[idx][1], lines[idx][2], header_y)
         /\ IdCands(lines[idx][2]) # {}
         /\ \E w \in WordSet(lines[idx][2]) : KeywordSubstring(w.text))
        => \E w \in IdCands(lines[idx][2]) : current_parcel' = w.text ]_vars

(* C8, amended: every eligible row with a token of 6 or more digits and a   *)
(* token holding the group keyword as a whole word (between word            *)
(* boundaries, whatever the case) sets current_parcel to the text of the    *)
(* leftmost such digit token, whether a parcel id was current or not.        *)
C8_WholeWordKeywordSetsParcel ==
  [][ (WalkStep /\ Eligible(lines[idx][1], lines[idx][2], header_y)
         /\ IdCands(lines[idx][2]) # {}
         /\ \E w \in WordSet(lines[idx][2]) : PALLET_WORD(w.text))
        => /\ \E w \in Leftmost(IdCands(lines[idx][2])) : current_parcel' = w.text
           /\ current_parcel' # None ]_vars

\* a group-header row was walked while another parcel id was current
C8_Witness ==
  /\ Walked
  /\ Eligible(WalkedY, WalkedWs, header_y)
  /\ GroupHeaderRow(WalkedWs)
  /\ current_parcel = <<"9","0","0","1","2","3">>
  /\ Len(pack_rows) >= 1
  /\ Parcel(pack_rows[1]) = <<"9","0","0","1","2","4">>

(* C9: a group-header row that also satisfies the item conditions gives     *)
(* exactly one record, whose parcel_id is the id set by that same row.       *)
C9_GroupHeaderRowYieldsItem ==
  [][ (WalkStep /\ Eligible(lines[idx][1], lines[idx][2], header_y)
         /\ GroupHeaderRow(lines[idx][2])
         /\ MaterialCands(lines[idx][2]) # {}
         /\ QtyCands(lines[idx][2]) # {})
        => /\ OneAppended(pack_rows, pack_rows')
           /\ \E w \in Leftmost(IdCands(lines[idx][2])) : Parcel(Last(pack_rows')) = w.text
           /\ Parcel(Last(pack_rows')) = current_parcel' ]_vars

\* the first group-header row of the document held an item and gave a record
\* under its own id
C9_Witness ==
  /\ Walked /\ page_no = 1
  /\ Eligible(WalkedY, WalkedWs, header_y)
  /\ GroupHeaderRow(WalkedWs)
  /\ MaterialCands(WalkedWs) # {} /\ QtyCands(WalkedWs) # {}
  /\ pack_rows = << << <<"9","0","0","1","2","4">>, <<"9","0","0","1","2","4">>, 7 >> >>

(* C10: while a parcel id is current, an eligible row gives exactly one     *)
(* record if and only if a token of 4-8 digits lies in the material window  *)
(* and a token of 1-4 digits lies in the quantity window; material_no is    *)
(* the leftmost such material token and quantity the integer value of the   *)
(* rightmost such quantity token; otherwise the row gives nothing.           *)
C10_ItemRowRecord ==
  [][ (WalkStep /\ Eligible(lines[idx][1], lines[idx][2], header_y)
         /\ current_parcel # None)
        => LET M == MaterialCands(lines[idx][2])
               Q == QtyCands(lines[idx][2])
           IN IF M # {} /\ Q # {}
              THEN /\ OneAppended(pack_rows, pack_rows')
                   /\ \E w \in Leftmost(M) : Material(Last(pack_rows')) = w.text
                   /\ \E w \in Rightmost(Q) : Quantity(Last(pack_rows')) = ValueOf(w.text)
                   /\ Parcel(Last(pack_rows')) = current_parcel'
              ELSE pack_rows' = pack_rows ]_vars

\* a row with two material tokens and two quantity tokens in the windows gave
\* the record of the leftmost material and the rightmost quantity
C10_Witness ==
  /\ Walked
  /\ Eligible(WalkedY, WalkedWs, header_y)
  /\ Cardinality(MaterialCands(WalkedWs)) >= 2
  /\ Cardinality(QtyCands(WalkedWs)) >= 2
  /\ Len(pack_rows) >= 1
  /\ Material(Last(pack_rows)) = <<"1","2","3","4","5">>
  /\ Quantity(Last(pack_rows)) = 8

\* the phrases that make a row a boilerplate row
SkipPhrases ==
  { <<"d","i","m","e","n","s","i","o","n","s">>,
    <<"t","o","t","a","l"," ","n","e","t"," ","w","e","i","g","h","t">>,
    <<"t","o","t","a","l"," ","g","r","o","s","s"," ","w","e","i","g","h","t">>,
    <<"t","y","p","e"," ","o","f"," ","p","a","r","c","e","l">> }
\* the tokens of a row, left to right, with one blank between them
RECURSIVE RowText(_)
RowText(ws) ==
  IF ws = <<>> THEN <<>>
  ELSE IF Len(ws) = 1 THEN ws[1].text
  ELSE ws[1].text \o <<" ">> \o RowText(Tail(ws))
\* the text of the row holds one of the phrases, whatever the case
BoilerplateRow(ws) ==
  \E p \in SkipPhrases : \E i \in 1..Len(RowText(ws)) :
    /\ i + Len(p) - 1 <= Len(RowText(ws))
    /\ \A n \in 1..Len(p) : LowerChar(RowText(ws)[i + n - 1]) = p[n]

(* C11: a packing row whose concatenated text matches a boilerplate skip     *)
(* pattern emits no record and changes no scanner state, also when the row   *)
(* holds the group keyword with a 6+ digit token or tokens that satisfy the  *)
(* item conditions: current_parcel and the table are the same after it.     *)
C11_SkipRowChangesNothing ==
  [][ (WalkStep /\ BoilerplateRow(lines[idx][2]))
        => pack_rows' = pack_rows /\ current_parcel' = current_parcel ]_vars

\* a row below the header with the phrase "total gross weight", the group
\* keyword, a 6+ digit token and both item tokens was walked while another
\* parcel id was current, and left the table and the parcel id alone
C11_Witness ==
  /\ Walked
  /\ WalkedY > header_y
  /\ BoilerplateRow(WalkedWs)
  /\ \E w \in WordSet(WalkedWs) : lower(w.text) = <<"g","r","o","s","s">>
  /\ GroupHeaderRow(WalkedWs)
  /\ MaterialCands(WalkedWs) # {} /\ QtyCands(WalkedWs) # {}
  /\ current_parcel = <<"9","0","0","1","2","3">>
  /\ pack_rows = <<>>

\* the lowercase text of a line starts with one of the boilerplate prefixes
BoilerplateLine(line) ==
  \E p \in BoilerplatePrefixes :
    Len(line) >= Len(p) /\ \A i \in 1..Len(p) : LowerChar(line[i]) = p[i]

(* C12 as claimed: an invoice line whose lowercase text starts with one of   *)
(* the boilerplate prefixes is skipped with no record and no state change:   *)
(* the table and current_inv are the same after the line as before it,       *)
(* whatever the rest of the line holds.                                      *)
C12_BoilerplateLineChangesNothing ==
  [][ (LineStep /\ BoilerplateLine(text_lines[pos]))
        => inv_rows' = inv_rows /\ current_inv' = current_inv ]_vars

(* C12, amended: such a line gives no record, and current_inv is the same    *)
(* after it unless the line itself holds an invoice number, which then       *)
(* becomes current_inv: the number is looked for before the prefix test.     *)
C12_BoilerplateLineKeepsTable ==
  [][ (LineStep /\ BoilerplateLine(text_lines[pos]))
        => /\ inv_rows' = inv_rows
           /\ current_inv' = IF inv_re(text_lines[pos]) # None
                             THEN inv_re(text_lines[pos]) ELSE current_inv ]_vars

\* a boilerplate line that holds an invoice number and passes every other
\* test was scanned after another number had been seen: no record, and the
\* number of the boilerplate line is current
C12_Witness ==
  /\ pc = "invoice" /\ pos = 3
  /\ text_lines[1] = LineInvoiceNo
  /\ text_lines[2] = LineBoilerplate
  /\ BoilerplateLine(text_lines[2])
  /\ QualifyingK(split(text_lines[2])) # {}
  /\ inv_rows = <<>>
  /\ current_inv = <<"6","9","5","0","0","0","0","0","3">>

(* C13: on a packing page with a header row only rows strictly below the     *)
(* header row are classified: a row at or above it emits no record and does  *)
(* not update current_parcel, even when it holds the group keyword with a    *)
(* 6+ digit token or tokens that satisfy the item conditions.                *)
C13_RowsNotBelowHeaderIgnored ==
  [][ (WalkStep /\ lines[idx][1] <= header_y)
        => pack_rows' = pack_rows /\ current_parcel' = current_parcel ]_vars

\* a row above the header with the group keyword, a 6+ digit token and both
\* item tokens in the windows was walked and left no trace
C13_Witness ==
  /\ Walked
  /\ WalkedY < header_y
  /\ ~BoilerplateRow(WalkedWs)
  /\ GroupHeaderRow(WalkedWs)
  /\ MaterialCands(WalkedWs) # {} /\ QtyCands(WalkedWs) # {}
  /\ current_parcel = None
  /\ pack_rows = <<>>

\* m / 10^f with the zeros at the end of the fraction dropped
Reduced(m, f) ==
  LET k == CHOOSE n \in 0..f : m % (10 ^ n) = 0 /\ (n = f \/ m % (10 ^ (n + 1)) # 0)
  IN << m \div (10 ^ k), f - k >>
\* the number a token of digits, "." and "," denotes in the European notation
\* ("." groups thousands, "," is the decimal sign); None when it denotes none
DecimalValue(t) ==
  LET digits == SelectSeq(t, LAMBDA c : c \in Digit)
      commas == {i \in 1..Len(t) : t[i] = ","}
      fraction == {i \in 1..Len(t) : t[i] \in Digit /\ \E c \in commas : c < i}
  IN IF Cardinality(commas) > 1 \/ digits = <<>> THEN None
     ELSE Reduced(ValueOf(digits), Cardinality(fraction))

(* C14: a numeric conversion failure never rejects an invoice line: every    *)
(* line that passes the token-count, decimal-shape, anchor and supplier      *)
(* checks gives exactly one record, whose net_price (total_net) is the       *)
(* locale-converted value of the second-to-last (last) token when the        *)
(* conversion succeeds and None when it fails, and the scan goes on with the *)
(* next line.                                                                *)
C14_ConversionFailureKeepsLine ==
  [][ (LineStep /\ QualifyingLine(text_lines[pos]))
        => LET tok == split(text_lines[pos]) IN
           /\ OneAppended(inv_rows, inv_rows')
           /\ Net_Price(Last(inv_rows')) = DecimalValue(tok[Len(tok) - 1])
           /\ Tot_Net_Value(Last(inv_rows')) = DecimalValue(tok[Len(tok)])
           /\ pc' = "invoice" /\ pos' = pos + 1 /\ text_lines' = text_lines ]_vars

\* a line whose last token is made only of separators gave a record with
\* net_price 1234.56 and total_net None, and the next line gave its record
C14_Witness ==
  /\ pc = "invoice" /\ pos = 3
  /\ text_lines = <<LineItemOwnNo, LineItem>>
  /\ Len(inv_rows) = 2
  /\ Net_Price(inv_rows[1]) = <<123456, 2>>
  /\ Tot_Net_Value(inv_rows[1]) = None
  /\ Net_Price(inv_rows[2]) = <<125, 1>>
  /\ Tot_Net_Value(inv_rows[2]) = <<125, 0>>

\* a document is about to be processed: no line and no page of it is taken yet
AtDocumentStart == pc = "read_all_text" \/ (pc = "pages" /\ page_no = 0)

(* C15: no parse state leaks across documents: every document, the first    *)
(* and the ones processed after others, starts with current_inv = None,      *)
(* current_parcel = None and empty tables, whatever the document before it   *)
(* left, and a document run again right after itself gives the same invoice  *)
(* table as the first time.                                                  *)
C15_NoLeakAcrossDocuments ==
  /\ AtDocumentStart =>
       /\ current_inv = None /\ current_parcel = None
       /\ inv_rows = <<>> /\ pack_rows = <<>>
  /\ (pc = "invoice_done" /\ prior.rerun) => inv_rows = prior.rows

\* a document whose item line comes before its invoice number was run twice:
\* the first run ended with a number current, and the record of the second
\* run has no invoice number, as the record of the first run
C15_Witness ==
  /\ pc = "invoice_done"
  /\ prior.n = 1 /\ prior.rerun /\ prior.dirty
  /\ text_lines = <<LineItem, LineInvoiceNo>>
  /\ Len(inv_rows) = 1
  /\ InvoiceNo(inv_rows[1]) = None
  /\ current_inv # None

\* the tokens of the page being walked, each with the index of its row
PlacedTokens ==
  UNION {{<<n, i>> : i \in 1..Len(lines[n][2])} : n \in 1..Len(lines)}
TokenAt(p) == lines[p[1]][2][p[2]]
\* the distance of two vertical positions, in hundredths of a unit
Apart(a, b) == IF a >= b THEN a - b ELSE b - a
\* the tenth of a unit nearest to a vertical position given in hundredths
Tenth(top) == CHOOSE t \in 0..(top \div 10 + 1) : Apart(10 * t, top) < 5
\* rows by ascending vertical position, tokens of a row by ascending x0
RowsAndTokensOrdered ==
  /\ \A n \in 1..(Len(lines) - 1) : lines[n][1] < lines[n + 1][1]
  /\ \A n \in 1..Len(lines) : \A i \in 1..(Len(lines[n][2]) - 1) :
       lines[n][2][i].x0 <= lines[n][2][i + 1].x0

(* C16 as claimed: the Line Grouper places any two tokens of one page whose  *)
(* vertical positions differ by less than the tolerance (about 3 coordinate  *)
(* units) in the same visual row; rows are ordered by ascending vertical     *)
(* position and tokens within a row by ascending x0.                         *)
C16_TokensWithinToleranceShareRow ==
  pc = "walk" =>
    /\ \A p, q \in PlacedTokens :
         Apart(TokenAt(p).top, TokenAt(q).top) < 300 => p[1] = q[1]
    /\ RowsAndTokensOrdered

(* C16, amended: the Line Grouper places two tokens of one page in the same  *)
(* visual row exactly when their vertical positions round to the same tenth  *)
(* of a unit, which is the position of the row; rows are ordered by          *)
(* ascending position and tokens within a row by ascending x0.               *)
C16_TokensOfSameTenthShareRow ==
  pc = "walk" =>
    /\ \A p, q \in PlacedTokens :
         p[1] = q[1] <=> Tenth(TokenAt(p).top) = Tenth(TokenAt(q).top)
    /\ \A p \in PlacedTokens : lines[p[1]][1] = Tenth(TokenAt(p).top)
    /\ \A n \in 1..Len(lines) : lines[n][2] # <<>>
    /\ RowsAndTokensOrdered

\* a page is walked on which the tokens at 10.00 and those at 10.04 make one
\* row, in the order of their x0
C16_Witness ==
  /\ pc = "walk"
  /\ Len(lines) = 1
  /\ \E p, q \in PlacedTokens :
       /\ TokenAt(p).top = 1000 /\ TokenAt(q).top = 1004
       /\ p[2] < q[2] /\ TokenAt(p).x0 < TokenAt(q).x0
  /\ \E p, q \in PlacedTokens :
       /\ TokenAt(p).top = 1000 /\ TokenAt(q).top = 1004
       /\ p[2] > q[2] /\ TokenAt(p).x0 > TokenAt(q).x0

\* the tokens of a row that are the quantity label, and those that hold the
\* material label
QuantityLabels(ws) ==
  {w \in WordSet(ws) : lower(w.text) = <<"q","u","a","n","t","i","t","y">>}
MaterialLabels(ws) ==
  {w \in WordSet(ws) : contains(lower(w.text), <<"v","a","l","e","o">>)}
\* the rows of the page being walked that hold both labels
LabelRows ==
  {n \in 1..Len(lines) : QuantityLabels(lines[n][2]) # {} /\ MaterialLabels(lines[n][2]) # {}}
\* the one among them with the smallest vertical position
TopLabelRow ==
  CHOOSE n \in LabelRows : \A m \in LabelRows : lines[n][1] <= lines[m][1]

(* C17: when several rows of a packing page hold both the quantity label and *)
(* a material label, the topmost of them is the header: the cutoff is its    *)
(* vertical position and both column windows are derived from its label      *)
(* tokens only, so the lower ones are ordinary rows below the header.        *)
C17_TopmostLabelRowIsHeader ==
  pc = "walk" =>
    /\ LabelRows # {}
    /\ header_y = lines[TopLabelRow][1]
    /\ LET Q == QuantityLabels(lines[TopLabelRow][2])
           M == MaterialLabels(lines[TopLabelRow][2])
       IN /\ qty_win = << SetMin({w.x0 : w \in Q}) - 1, SetMax({w.x1 : w \in Q}) + 60 >>
          /\ valeo_win = << SetMin({w.x0 : w \in M}) - 10, SetMax({w.x1 : w \in M}) + 20 >>

\* a page with two label rows was walked to its end: the upper one is the
\* header, and the lower one, walked as an ordinary row, gave the record of
\* the item tokens it holds in the windows of the upper one
C17_Witness ==
  /\ pc = "walk" /\ idx > Len(lines)
  /\ Cardinality(LabelRows) = 2
  /\ header_y = lines[1][1]
  /\ qty_win = <<399, 500>> /\ valeo_win = <<90, 150>>
  /\ Len(pack_rows) >= 1
  /\ Material(Last(pack_rows)) = <<"5","4","3","2","1">>
  /\ Quantity(Last(pack_rows)) = 6

(* C18: in every reachable state of the packing scanner every record of the  *)
(* table has a parcel_id that is a string of 6 or more digits, a material_no *)
(* that is a string of 4 to 8 digits and a quantity that is an integer       *)
(* between 0 and 9999: a quantity token of more than 4 digits gives no       *)
(* record.                                                                   *)
C18_RecordFieldShapes ==
  \A n \in 1..Len(pack_rows) :
    /\ IsDigits(Parcel(pack_rows[n]), 6, Len(Parcel(pack_rows[n])))
    /\ IsDigits(Material(pack_rows[n]), 4, 8)
    /\ Quantity(pack_rows[n]) \in 0..9999

\* with a parcel id current and a record in the table, a row below the header
\* with a material token in its window and a 5-digit token in the quantity
\* window was walked and gave no record
C18_Witness ==
  /\ Walked
  /\ Eligible(WalkedY, WalkedWs, header_y)
  /\ current_parcel # None
  /\ MaterialCands(WalkedWs) # {}
  /\ \E w \in WordSet(WalkedWs) :
       qty_win[1] <= w.x0 /\ w.x0 <= qty_win[2] /\ IsDigits(w.text, 5, Len(w.text))
  /\ QtyCands(WalkedWs) = {}
  /\ Len(pack_rows) = 1
  /\ Len(lines) = 2

=============================================================================
